---------------------------- MODULE Spec2Model ----------------------------
(***************************************************************************)
(* Model of the binary-heap demonstrations of rust-collections             *)
(* (src/.../rust-collections/src/binaryheap_examples.rs).                  *)
(*                                                                         *)
(* The examples drive std::collections::BinaryHeap<i8>.  Every operator    *)
(* below that carries the name of a BinaryHeap method models what the call *)
(* at the mapped source line does: the array-backed max-heap algorithm of  *)
(* the standard library (hole-based sift_up / sift_down_range /            *)
(* sift_down_to_bottom, rebuild, rebuild_tail).  Positions are 0-based as  *)
(* in the code; the backing Vec is a TLA+ sequence, so position i is       *)
(* s[i + 1].                                                               *)
(***************************************************************************)
EXTENDS Integers, Sequences, FiniteSets

\* ------------------------------------------------------------------ bounds
\* Elements are the i8 values 1 .. MaxVal.
MaxVal == 3
\* The longest backing Vec the model builds.
MaxLen == 4
\* The longest second heap built for append.
MaxOther == 2
\* The number of pushes counted in the push/pop-only specification.
MaxPushes == 5

\* Event priorities are 1 .. MaxPrio and timestamps 1 .. MaxTs.
MaxPrio == 2
MaxTs == 2
\* The most events pushed onto the event queue.
MaxEvents == 3

\* merge_k_sorted is called with up to MaxLists lists of up to MaxLists
\* values from 1 .. MaxLists each.
MaxLists == 2

\* The most tasks pushed onto the task queue; their priorities are
\* 1 .. MaxPrio.
MaxTasks == 4

\* The most states pushed onto the priority queue, and their greatest cost.
MaxStates == 3
MaxCost == 3

\* The greatest length of the data the sliding window runs over.
MaxData == 4

\* i8 is 8 bits wide.
I8Bits == 8
I8Max == 2 ^ (I8Bits - 1) - 1
I8Min == 0 - 2 ^ (I8Bits - 1)

\* The clock of the cache runs from 0 to MaxTime; the TTL of the cache is
\* at most MaxTtl.
MaxTime == 3
MaxTtl == 2

\* The most words interned.
MaxWords == 4

\* usize is modelled UsizeBits wide, isize likewise.
UsizeBits == 4
UsizeMax == 2 ^ UsizeBits - 1
IsizeMax == 2 ^ (UsizeBits - 1) - 1

Values == 1 .. MaxVal

\* All sequences over S of length at most n.
SeqsUpTo(S, n) == UNION {[1 .. k -> S] : k \in 0 .. n}

\* ------------------------------------------------------- Vec<i8> helpers
At(s, i) == s[i + 1]

Swap(s, i, j) == [s EXCEPT ![i + 1] = s[j + 1], ![j + 1] = s[i + 1]]

\* Vec::pop on a non-empty Vec: what is left.
Front(s) == SubSeq(s, 1, Len(s) - 1)

\* usize::saturating_sub
saturating_sub(a, b) == IF a >= b THEN a - b ELSE 0

\* ------------------------------------------------- BinaryHeap internals
\* sift_up with the comparison the wrong way round.
RECURSIVE sift_up_reversed(_, _, _)
sift_up_reversed(s, start, pos) ==
    IF pos > start
    THEN LET parent == (pos - 1) \div 2
         IN  IF At(s, pos) >= At(s, parent)
             THEN s
             ELSE sift_up_reversed(Swap(s, pos, parent), start, parent)
    ELSE s

\* sift_up(start, pos): move the element at pos up while it is greater than
\* its parent; the walk stops at start.
RECURSIVE sift_up(_, _, _)
sift_up(s, start, pos) ==
    IF pos > start
    THEN LET parent == (pos - 1) \div 2
         IN  IF At(s, pos) <= At(s, parent)
             THEN s
             ELSE sift_up(Swap(s, pos, parent), start, parent)
    ELSE s

\* sift_down_range that always looks at the left child only.
RECURSIVE sift_down_left(_, _, _, _)
sift_down_left(s, pos, child, end) ==
    IF child <= saturating_sub(end, 2)
    THEN IF At(s, pos) >= At(s, child)
         THEN s
         ELSE sift_down_left(Swap(s, pos, child), child, 2 * child + 1, end)
    ELSE IF child = end - 1 /\ At(s, pos) < At(s, child)
         THEN Swap(s, pos, child)
         ELSE s

\* sift_down_range(pos, end): move the element at pos down within [0, end),
\* each time towards the greater child (the right one on a tie), until it is
\* >= that child.
RECURSIVE sift_down_loop(_, _, _, _)
sift_down_loop(s, pos, child, end) ==
    IF child <= saturating_sub(end, 2)
    THEN LET c == child + (IF At(s, child) <= At(s, child + 1) THEN 1 ELSE 0)
         IN  IF At(s, pos) >= At(s, c)
             THEN s
             ELSE sift_down_loop(Swap(s, pos, c), c, 2 * c + 1, end)
    ELSE IF child = end - 1 /\ At(s, pos) < At(s, child)
         THEN Swap(s, pos, child)
         ELSE s

sift_down_range(s, pos, end) == sift_down_loop(s, pos, 2 * pos + 1, end)

sift_down(s, pos) == sift_down_range(s, pos, Len(s))

\* sift_down_to_bottom(pos): take the element at pos all the way down along
\* the greater children, then sift it up again from there.
RECURSIVE to_bottom_loop(_, _, _, _)
to_bottom_loop(s, start, pos, child) ==
    LET end == Len(s)
    IN  IF child <= saturating_sub(end, 2)
        THEN LET c == child + (IF At(s, child) <= At(s, child + 1) THEN 1 ELSE 0)
             IN  to_bottom_loop(Swap(s, pos, c), start, c, 2 * c + 1)
        ELSE IF child = end - 1
             THEN sift_up(Swap(s, pos, child), start, child)
             ELSE sift_up(s, start, pos)

sift_down_to_bottom(s, pos) == to_bottom_loop(s, pos, pos, 2 * pos + 1)

\* rebuild that stops one short and never sifts the root.
RECURSIVE rebuild_skip_root(_, _)
rebuild_skip_root(s, n) ==
    IF n > 1 THEN rebuild_skip_root(sift_down(s, n - 1), n - 1) ELSE s

\* rebuild(): sift down every non-leaf, from the last one to the root.
RECURSIVE rebuild_loop(_, _)
rebuild_loop(s, n) ==
    IF n > 0 THEN rebuild_loop(sift_down(s, n - 1), n - 1) ELSE s

rebuild(s) == rebuild_loop(s, Len(s) \div 2)

\* log2_fast(x) = usize::BITS - x.leading_zeros() - 1, for x >= 1.
RECURSIVE log2_fast(_)
log2_fast(x) == IF x <= 1 THEN 0 ELSE 1 + log2_fast(x \div 2)

RECURSIVE sift_up_from(_, _)
sift_up_from(s, i) ==
    IF i < Len(s) THEN sift_up_from(sift_up(s, 0, i), i + 1) ELSE s

\* rebuild_tail(start): [0, start) is a heap already; either rebuild the
\* whole Vec or sift up each element of the tail, whichever is cheaper (the
\* estimate is the one the library uses for Vecs of at most 2048 elements).
rebuild_tail(s, start) ==
    IF start = Len(s)
    THEN s
    ELSE LET tail_len == Len(s) - start
             better_to_rebuild ==
                 IF start < tail_len
                 THEN TRUE
                 ELSE 2 * Len(s) < tail_len * log2_fast(start)
         IN  IF better_to_rebuild THEN rebuild(s) ELSE sift_up_from(s, start)


\* ------------------------------------------- BinaryHeap public operations
\* An Option<i8> is [some |-> TRUE, val |-> v] or [some |-> FALSE, val |-> 0].
Some(v) == [some |-> TRUE, val |-> v]
Absent == [some |-> FALSE, val |-> 0]

\* from that takes the Vec as it is and never rebuilds.
from_unbuilt(v) == v

\* BinaryHeap::from(vec) and collect(): take the Vec as it is, then rebuild.
from(v) == rebuild(v)

\* push that treats the heap as a set: an element already there is not added.
push_dedup(s, item) ==
    IF \E i \in DOMAIN s : s[i] = item
    THEN s
    ELSE sift_up(Append(s, item), 0, Len(s))

\* push(item): Vec::push, then sift_up(0, old_len).
push(s, item) == sift_up(Append(s, item), 0, Len(s))

\* pop that reads the root as peek does and removes nothing.
pop_keep(s) ==
    IF s = << >> THEN [ret |-> Absent, data |-> s] ELSE [ret |-> Some(s[1]), data |-> s]

\* pop that hands back what Vec::pop removed, without the swap with the root.
pop_last(s) ==
    IF s = << >>
    THEN [ret |-> Absent, data |-> s]
    ELSE [ret |-> Some(s[Len(s)]), data |-> Front(s)]

\* pop(): Vec::pop; if something is left, the removed last element takes the
\* root's place, the old root is returned and the new root is sifted down to
\* the bottom.  [ret, data]
pop(s) ==
    IF s = << >>
    THEN [ret |-> Absent, data |-> s]
    ELSE LET item == s[Len(s)]
             rest == Front(s)
         IN  IF rest # << >>
             THEN [ret |-> Some(rest[1]),
                   data |-> sift_down_to_bottom([rest EXCEPT ![1] = item], 0)]
             ELSE [ret |-> Some(item), data |-> rest]

\* peek(): the first element of the Vec, if any.
peek(s) == IF s = << >> THEN Absent ELSE Some(s[1])

\* append that moves the elements over and forgets to rebuild the tail.
append_no_rebuild(a, b) ==
    LET swapped == Len(a) < Len(b)
        x == IF swapped THEN b ELSE a
        y == IF swapped THEN a ELSE b
    IN  [self |-> x \o y, other |-> << >>]

\* append(other): the longer Vec becomes self, the other one is moved onto
\* its end and the tail is rebuilt; other is left empty.  [self, other]
append(a, b) ==
    LET swapped == Len(a) < Len(b)
        x == IF swapped THEN b ELSE a
        y == IF swapped THEN a ELSE b
    IN  [self |-> rebuild_tail(x \o y, Len(x)), other |-> << >>]

\* extend that forgets to rebuild the tail.
extend_no_rebuild(s, items) == s \o items

\* extend(iter): Vec::extend, then the tail from the old length is rebuilt.
extend(s, items) == rebuild_tail(s \o items, Len(s))

\* The index of the first element the predicate rejects, Len(s) if none.
RECURSIVE first_removed(_, _, _)
first_removed(s, K, i) ==
    IF i < Len(s) /\ At(s, i) \in K THEN first_removed(s, K, i + 1) ELSE i

\* retain that forgets to rebuild the tail.
retain_no_rebuild(s, K) ==
    LET keep(e) == e \in K
    IN  SelectSeq(s, keep)

\* retain(f), f = membership in K: Vec::retain, then the tail from the first
\* removed position is rebuilt.
retain(s, K) ==
    LET keep(e) == e \in K
    IN  rebuild_tail(SelectSeq(s, keep), first_removed(s, K, 0))

\* into_sorted_vec whose loop stops one turn early.
RECURSIVE into_sorted_short(_, _)
into_sorted_short(s, end) ==
    IF end > 2
    THEN into_sorted_short(sift_down_range(Swap(s, 0, end - 1), 0, end - 1), end - 1)
    ELSE s

\* into_sorted_vec(): in-place heapsort; the root is swapped to the end of
\* the shrinking range and the new root sifted down within it.
RECURSIVE into_sorted_loop(_, _)
into_sorted_loop(s, end) ==
    IF end > 1
    THEN into_sorted_loop(sift_down_range(Swap(s, 0, end - 1), 0, end - 1), end - 1)
    ELSE s

into_sorted_vec(s) == into_sorted_loop(s, Len(s))

\* for item in items { heap.push(item) }
RECURSIVE push_all(_, _)
push_all(s, items) ==
    IF items = << >> THEN s ELSE push_all(push(s, Head(items)), Tail(items))

\* while let Some(val) = heap.pop() { result.push(val) }  as a function of
\* the backing Vec.
RECURSIVE pop_all(_)
pop_all(s) ==
    LET r == pop(s)
    IN  IF r.ret.some THEN <<r.ret.val>> \o pop_all(r.data) ELSE << >>

\* heapsort_descending(data): collect into a heap, pop until None.
heapsort_descending(data) == pop_all(from(data))

\* -------------------------------------- BinaryHeap<T> for the other T: Ord
\* std::cmp::Reverse(v)
Reverse(v) == [rev |-> v]

\* Ord::cmp of the integer types.
cmp(a, b) == IF a < b THEN "Less" ELSE IF a = b THEN "Equal" ELSE "Greater"

\* Ordering::then_with
then_with(first, second) == IF first = "Equal" THEN second ELSE first

\* Event::cmp with the timestamps compared the same way round as the
\* priorities.
Event_cmp_unreversed(self, other) ==
    then_with(cmp(self.priority, other.priority),
              cmp(self.timestamp, other.timestamp))

\* Event::cmp: first compare by priority (higher = better), then by
\* timestamp (earlier = better, so reverse).
Event_cmp(self, other) ==
    then_with(cmp(self.priority, other.priority),
              cmp(other.timestamp, self.timestamp))

\* Task::cmp with the lower priority number the greater task.
Task_cmp_reversed(self, other) == cmp(other.priority, self.priority)

\* Task::cmp: compare by priority only.
Task_cmp(self, other) == cmp(self.priority, other.priority)

\* State::cmp with the costs compared the same way round.
State_cmp_unreversed(self, other) == cmp(self.cost, other.cost)

\* State::cmp: reversed, other.cost.cmp(&self.cost).
State_cmp(self, other) == cmp(other.cost, self.cost)

\* Ord::cmp of the tuple (i8, usize, usize): lexicographic.
tuple_cmp(a, b) ==
    then_with(cmp(a[1], b[1]), then_with(cmp(a[2], b[2]), cmp(a[3], b[3])))

\* a <= b where Reverse does not reverse.
le_plain(ord, a, b) ==
    CASE ord = "i8" -> a <= b
      [] ord = "Reverse" -> a.rev <= b.rev
      [] ord = "Event" -> Event_cmp(a, b) # "Greater"
      [] ord = "Entry" -> tuple_cmp(a.rev, b.rev) # "Greater"
      [] ord = "Task" -> Task_cmp(a, b) # "Greater"
      [] ord = "State" -> State_cmp(a, b) # "Greater"

\* a <= b for the element type named by ord: i8, Reverse<i8> (the inner
\* values compared the other way round), Event, Task and State (partial_cmp
\* is Some(cmp)), and Entry, the Reverse<(i8, usize, usize)> of
\* merge_k_sorted.
le(ord, a, b) ==
    CASE ord = "i8" -> a <= b
      [] ord = "Reverse" -> b.rev <= a.rev
      [] ord = "Event" -> Event_cmp(a, b) # "Greater"
      [] ord = "Entry" -> tuple_cmp(b.rev, a.rev) # "Greater"
      [] ord = "Task" -> Task_cmp(a, b) # "Greater"
      [] ord = "State" -> State_cmp(a, b) # "Greater"

\* sift_up, sift_down_to_bottom, push and pop as above, with the elements
\* compared by le.
RECURSIVE sift_up_T(_, _, _, _)
sift_up_T(ord, s, start, pos) ==
    IF pos > start
    THEN LET parent == (pos - 1) \div 2
         IN  IF le(ord, At(s, pos), At(s, parent))
             THEN s
             ELSE sift_up_T(ord, Swap(s, pos, parent), start, parent)
    ELSE s

RECURSIVE to_bottom_loop_T(_, _, _, _, _)
to_bottom_loop_T(ord, s, start, pos, child) ==
    LET end == Len(s)
    IN  IF child <= saturating_sub(end, 2)
        THEN LET c == child + (IF le(ord, At(s, child), At(s, child + 1)) THEN 1 ELSE 0)
             IN  to_bottom_loop_T(ord, Swap(s, pos, c), start, c, 2 * c + 1)
        ELSE IF child = end - 1
             THEN sift_up_T(ord, Swap(s, pos, child), start, child)
             ELSE sift_up_T(ord, s, start, pos)

sift_down_to_bottom_T(ord, s, pos) == to_bottom_loop_T(ord, s, pos, pos, 2 * pos + 1)

push_T(ord, s, item) == sift_up_T(ord, Append(s, item), 0, Len(s))

\* pop_T that hands back what Vec::pop removed, without the swap with the
\* root.
pop_last_T(ord, s) ==
    IF s = << >>
    THEN [ret |-> Absent, data |-> s]
    ELSE [ret |-> Some(s[Len(s)]), data |-> Front(s)]

pop_T(ord, s) ==
    IF s = << >>
    THEN [ret |-> Absent, data |-> s]
    ELSE LET item == s[Len(s)]
             rest == Front(s)
         IN  IF rest # << >>
             THEN [ret |-> Some(rest[1]),
                   data |-> sift_down_to_bottom_T(ord, [rest EXCEPT ![1] = item], 0)]
             ELSE [ret |-> Some(item), data |-> rest]

\* One push per item, in the order of items.
RECURSIVE push_all_T(_, _, _)
push_all_T(ord, s, items) ==
    IF items = << >> THEN s ELSE push_all_T(ord, push_T(ord, s, Head(items)), Tail(items))

\* while let Some(x) = heap.pop(): what the loop yields, in order.
RECURSIVE pop_all_T(_, _)
pop_all_T(ord, s) ==
    IF s = << >> THEN << >> ELSE <<pop_T(ord, s).ret.val>> \o pop_all_T(ord, pop_T(ord, s).data)

\* ------------------------------------------------- specification oracles
\* The multiset of a sequence: how often each value occurs.
Count(s) == [v \in Values |-> Cardinality({i \in DOMAIN s : s[i] = v})]

NoElems == [v \in Values |-> 0]

Size(c) == LET RECURSIVE sum(_)
               sum(v) == IF v = 0 THEN 0 ELSE c[v] + sum(v - 1)
           IN  sum(MaxVal)

BagAdd(c, d) == [v \in Values |-> c[v] + d[v]]

BagPut(c, x) == [c EXCEPT ![x] = @ + 1]

BagTake(c, x) == [c EXCEPT ![x] = @ - 1]

BagMax(c) == CHOOSE v \in Values : c[v] > 0 /\ \A w \in Values : c[w] > 0 => w <= v

\* k copies of v.
BagMin(c) == CHOOSE v \in Values
                 : c[v] > 0 /\ \A w \in Values : c[w] > 0 => w >= v

Copies(v, k) == [i \in 1 .. k |-> v]

\* The descending and the ascending sort of a multiset.
RECURSIVE SortDescFrom(_, _)
SortDescFrom(c, v) ==
    IF v = 0 THEN << >> ELSE Copies(v, c[v]) \o SortDescFrom(c, v - 1)

SortDesc(c) == SortDescFrom(c, MaxVal)

RECURSIVE SortAscFrom(_, _)
SortAscFrom(c, v) ==
    IF v > MaxVal THEN << >> ELSE Copies(v, c[v]) \o SortAscFrom(c, v + 1)

SortAsc(c) == SortAscFrom(c, 1)

Min(a, b) == IF a <= b THEN a ELSE b

\* The k largest and the k smallest of nums, as multisets.
Largest(s, n) == Count(SubSeq(SortDesc(Count(s)), 1, Min(n, Len(s))))

Smallest(s, n) == Count(SubSeq(SortAsc(Count(s)), 1, Min(n, Len(s))))

\* The lists of a list of lists, one after the other.
RECURSIVE Concat(_)
Concat(ls) == IF ls = << >> THEN << >> ELSE ls[1] \o Concat(Tail(ls))

Occurrences(s, v) == Cardinality({i \in DOMAIN s : s[i] = v})

\* s is a permutation of t.
SameElements(s, t) ==
    /\ Len(s) = Len(t)
    /\ \A i \in DOMAIN s : Occurrences(s, s[i]) = Occurrences(t, s[i])

NonDecreasing(s) == \A i \in 1 .. Len(s) - 1 : s[i] <= s[i + 1]

\* The orders in which the members of a set can be pushed.
Orders(S) ==
    {s \in [1 .. Cardinality(S) -> S] : \A i, j \in DOMAIN s : s[i] = s[j] => i = j}

Priorities(s) == [i \in DOMAIN s |-> s[i].priority]

\* The sum of the values of s, as a number.
RECURSIVE MathSum(_)
MathSum(s) == IF s = << >> THEN 0 ELSE Head(s) + MathSum(Tail(s))

\* The heap property of a backing Vec: no element is greater than its parent.
IsHeap(s) ==
    \A i \in 0 .. Len(s) - 1 :
        /\ (2 * i + 1 < Len(s) => At(s, i) >= At(s, 2 * i + 1))
        /\ (2 * i + 2 < Len(s) => At(s, i) >= At(s, 2 * i + 2))

\* ------------------------------------------------------------------ state
VARIABLES
    heap,     \* the backing Vec of the heap the example works on
    other,    \* the backing Vec of the second heap (heap2 of bulk_operations)
    guard,    \* the PeekMut guard: [held, original_len]; original_len = 0 is None
    last,     \* the last call: [op, arg, ret]
    mode,     \* "idle", "draining" (inside a while-let-pop loop), "drained",
              \* "sorted" or "vec" (the heap was consumed by into_sorted_vec or
              \* into_vec); in the functions with a loop of their own "loop"
              \* (between two iterations), "pushed" (inside one), "done"
              \* (returned) and "panicked"
    out,      \* the Vec the pop loop or into_sorted_vec produced; the result
              \* of merge_k_sorted, k_largest and k_smallest; the averages of
              \* the sliding window; the Rcs intern returned
    elems,    \* the multiset the heap holds by the operations' contracts
              \* (for the queues of events, tasks and states, which are
              \* distinct: the set; for the cache: value and time of the last
              \* insert of every key)
    start,    \* elems when the pop loop or into_sorted_vec began
    pushes,   \* push calls counted (push/pop-only specification; in the
              \* functions with a for loop, the elements the loop has taken)
    pops,     \* pop calls that returned Some, counted likewise
    nums,     \* the input of the function under way: nums of k_largest and
              \* k_smallest, data of heapsort and of the sliding window, the
              \* words interned, the two values compared
    k,        \* the k of k_largest and k_smallest
    lists,    \* the lists merge_k_sorted was called with
    window,   \* the VecDeque of sliding_window_example, front first
    cache,    \* the Cache of cache_example: [entries, default_ttl]
    now,      \* what Instant::now() returns
    interner, \* the Interner of string_interning: [strings]
    allocated, \* the Rc allocations made so far, counted
    build,    \* "debug" (overflow checks on) or "release" (off), where the
              \* example's arithmetic depends on it
    fn,       \* which of k_largest and k_smallest is under way, or which
              \* type's cmp and == are called, where several are looked at
    reserved  \* the capacity the heap of k_largest or k_smallest was made with

\* The state of the examples that are not heap examples.
OtherExamples == <<lists, window, cache, now, interner, allocated, build, fn>>

vars == <<heap, other, guard, last, mode, out, elems, start, pushes, pops, nums, k,
          lists, window, cache, now, interner, allocated, build, fn, reserved>>

NoGuard == [held |-> FALSE, original_len |-> 0]

\* ret is the Option a peek, peek_mut or pop returned; the other calls return
\* () and leave Absent there.  arg is the argument of the call: the item
\* pushed or written, the Vec built from or extended with, the set retain
\* keeps (append and drop note the other heap's length and the root found).
Call(op, arg, ret) == [op |-> op, arg |-> arg, ret |-> ret]

\* An AHashMap or FxHashSet with nothing in it is the function with the empty
\* domain; the other examples have not begun.
InitOtherExamples ==
    /\ lists = << >>
    /\ window = << >>
    /\ cache = [entries |-> << >>, default_ttl |-> 0]
    /\ now = 0
    /\ interner = [strings |-> {}]
    /\ allocated = 0
    /\ fn = "none"
    /\ build = "release"

\* No guard is alive and no loop is running: any method may be called.
Idle == mode = "idle" /\ ~guard.held

\* let mut heap = BinaryHeap::new();  or  let mut heap = BinaryHeap::from(v);
\* (collect() is from() of the collected Vec).
Init ==
    /\ \E v \in SeqsUpTo(Values, MaxLen) :
           /\ heap = from(v)
           /\ elems = Count(v)
           /\ last = Call(IF v = << >> THEN "new" ELSE "from", v, Absent)
    /\ other = << >>
    /\ guard = NoGuard
    /\ mode = "idle"
    /\ out = << >>
    /\ start = NoElems
    /\ pushes = 0
    /\ pops = 0
    /\ reserved = 0
    /\ nums = << >>
    /\ k = 0
    /\ InitOtherExamples

\* ---------------------------------------------------------------- actions
\* heap.push(item)
Push(item) ==
    /\ Idle
    /\ Len(heap) < MaxLen
    /\ heap' = push(heap, item)
    /\ elems' = BagPut(elems, item)
    /\ last' = Call("push", item, Absent)
    /\ UNCHANGED <<other, guard, mode, out, start>>

\* heap.pop()
Pop ==
    /\ Idle
    /\ LET r == pop(heap)
       IN  /\ heap' = r.data
           /\ elems' = IF r.ret.some THEN BagTake(elems, r.ret.val) ELSE elems
           /\ last' = Call("pop", 0, r.ret)
    /\ UNCHANGED <<other, guard, mode, out, start>>

\* A peek that takes the maximum out, as pop does.
PeekRemoves ==
    /\ Idle
    /\ last' = Call("peek", 0, peek(heap))
    /\ heap' = pop(heap).data
    /\ UNCHANGED <<other, guard, mode, out, elems, start>>

\* heap.peek()
Peek ==
    /\ Idle
    /\ last' = Call("peek", 0, peek(heap))
    /\ UNCHANGED <<heap, other, guard, mode, out, elems, start>>

\* peek_mut that hands out a guard without looking whether the heap is empty.
PeekMutUnchecked ==
    /\ Idle
    /\ last' = Call("peek_mut", 0, peek(heap))
    /\ guard' = [held |-> TRUE, original_len |-> 0]
    /\ UNCHANGED <<heap, other, mode, out, elems, start>>

\* heap.peek_mut(): None on an empty heap, otherwise a guard with
\* original_len: None.
PeekMut ==
    /\ Idle
    /\ IF heap = << >>
       THEN /\ last' = Call("peek_mut", 0, Absent)
            /\ guard' = guard
       ELSE /\ last' = Call("peek_mut", 0, Some(heap[1]))
            /\ guard' = [held |-> TRUE, original_len |-> 0]
    /\ UNCHANGED <<heap, other, mode, out, elems, start>>

\* *max_ref = v: DerefMut notes the length when the heap has more than one
\* element (and hides the rest of the Vec until the guard is dropped), then
\* the root is overwritten.
DerefMutWrite(v) ==
    /\ mode = "idle"
    /\ guard.held
    /\ guard' = [guard EXCEPT !.original_len =
                     IF Len(heap) > 1 THEN Len(heap) ELSE @]
    /\ elems' = BagPut(BagTake(elems, heap[1]), v)
    /\ heap' = [heap EXCEPT ![1] = v]
    /\ last' = Call("deref_mut", v, Absent)
    /\ UNCHANGED <<other, mode, out, start>>

\* A guard whose release leaves the root where the caller put it.
DropPeekMutNoSift ==
    /\ mode = "idle"
    /\ guard.held
    /\ heap' = heap
    /\ guard' = NoGuard
    /\ last' = Call("drop", IF guard.original_len # 0 THEN heap[1] ELSE 0, Absent)
    /\ UNCHANGED <<other, mode, out, elems, start>>

\* The guard goes out of scope (at the end of the if-let block, or on any
\* earlier exit from it): Drop restores the length and sifts the root down
\* if DerefMut was used.  last.arg records the root Drop found (0 when
\* DerefMut was not used).
DropPeekMut ==
    /\ mode = "idle"
    /\ guard.held
    /\ heap' = IF guard.original_len # 0 THEN sift_down(heap, 0) ELSE heap
    /\ guard' = NoGuard
    /\ last' = Call("drop", IF guard.original_len # 0 THEN heap[1] ELSE 0, Absent)
    /\ UNCHANGED <<other, mode, out, elems, start>>

\* let mut heap2 = BinaryHeap::from(v)
FromOther(v) ==
    /\ Idle
    /\ other = << >>
    /\ v # << >>
    /\ other' = from(v)
    /\ last' = Call("from_other", 0, Absent)
    /\ UNCHANGED <<heap, guard, mode, out, elems, start>>

\* heap1.append(&mut heap2)
AppendOther ==
    /\ Idle
    /\ Len(heap) + Len(other) <= MaxLen
    /\ LET r == append(heap, other)
       IN  /\ heap' = r.self
           /\ other' = r.other
    /\ elems' = BagAdd(elems, Count(other))
    /\ last' = Call("append", Len(other), Absent)
    /\ UNCHANGED <<guard, mode, out, start>>

\* heap.extend(items)
Extend(items) ==
    /\ Idle
    /\ Len(heap) + Len(items) <= MaxLen
    /\ heap' = extend(heap, items)
    /\ elems' = BagAdd(elems, Count(items))
    /\ last' = Call("extend", items, Absent)
    /\ UNCHANGED <<other, guard, mode, out, start>>

\* heap.retain(|&x| x in K)
Retain(K) ==
    /\ Idle
    /\ heap' = retain(heap, K)
    /\ elems' = [v \in Values |-> IF v \in K THEN elems[v] ELSE 0]
    /\ last' = Call("retain", K, Absent)
    /\ UNCHANGED <<other, guard, mode, out, start>>

\* One turn of  while let Some(val) = heap.pop() { result.push(val) } :
\* the loop starts on an idle heap and ends when pop returns None.
PopLoop ==
    /\ ~guard.held
    /\ mode \in {"idle", "draining"}
    /\ LET r == pop(heap)
       IN  /\ heap' = r.data
           /\ last' = Call("pop", 0, r.ret)
           /\ IF r.ret.some
              THEN /\ out' = Append(IF mode = "idle" THEN << >> ELSE out, r.ret.val)
                   /\ elems' = BagTake(elems, r.ret.val)
                   /\ mode' = "draining"
              ELSE /\ out' = (IF mode = "idle" THEN << >> ELSE out)
                   /\ elems' = elems
                   /\ mode' = "drained"
    /\ start' = (IF mode = "idle" THEN elems ELSE start)
    /\ UNCHANGED <<other, guard>>

\* let sorted = heap.into_sorted_vec();  the heap is moved out of.
IntoSortedVec ==
    /\ Idle
    /\ out' = into_sorted_vec(heap)
    /\ heap' = << >>
    /\ start' = elems
    /\ elems' = NoElems
    /\ mode' = "sorted"
    /\ last' = Call("into_sorted_vec", 0, Absent)
    /\ UNCHANGED <<other, guard>>

\* into_vec that sorts what it hands back.
into_vec_sorted(s) == into_sorted_vec(s)

\* into_vec(): the backing Vec as it is.
into_vec(s) == s

\* let unsorted = heap_copy.into_vec();  the heap is moved out of.
IntoVec ==
    /\ Idle
    /\ out' = into_vec(heap)
    /\ heap' = << >>
    /\ start' = elems
    /\ elems' = NoElems
    /\ mode' = "vec"
    /\ last' = Call("into_vec", 0, Absent)
    /\ UNCHANGED <<other, guard>>

\* ---------------------------------------------------------- specifications
\* ---- min_heap_with_reverse: a BinaryHeap<Reverse<i8>>
\* min_heap.push(Reverse(val));
MinHeapPush(val) ==
    /\ Idle
    /\ Len(heap) < MaxLen
    /\ heap' = push_T("Reverse", heap, Reverse(val))
    /\ elems' = BagPut(elems, val)
    /\ last' = Call("push", val, Absent)
    /\ UNCHANGED <<other, guard, mode, out, start>>

\* if let Some(Reverse(min_val)) = min_heap.peek() { .. }
MinHeapPeek ==
    /\ Idle
    /\ last' = Call("peek", 0, peek(heap))
    /\ UNCHANGED <<heap, other, guard, mode, out, elems, start>>

\* while let Some(Reverse(val)) = min_heap.pop() { .. }: one turn of the
\* loop; out collects the unwrapped values in the order they are printed.
MinHeapPopLoop ==
    /\ ~guard.held
    /\ mode \in {"idle", "draining"}
    /\ LET r == pop_T("Reverse", heap)
       IN  /\ heap' = r.data
           /\ last' = Call("pop", 0, r.ret)
           /\ IF r.ret.some
              THEN /\ out' = Append(IF mode = "idle" THEN << >> ELSE out, r.ret.val.rev)
                   /\ elems' = BagTake(elems, r.ret.val.rev)
                   /\ mode' = "draining"
              ELSE /\ out' = (IF mode = "idle" THEN << >> ELSE out)
                   /\ elems' = elems
                   /\ mode' = "drained"
    /\ start' = (IF mode = "idle" THEN elems ELSE start)
    /\ UNCHANGED <<other, guard>>

\* ---- custom_types_in_heap, example 2: a BinaryHeap<Event>
\* struct Event { priority, timestamp, name }.  The name tells the events
\* apart, as in the example: it is modelled as the event's place in the
\* order of the pushes.
Events == [priority : 1 .. MaxPrio, timestamp : 1 .. MaxTs, name : 1 .. MaxEvents]

\* event_queue.push(Event { priority, timestamp, name });  here elems is the
\* set of the events the queue holds.
EventPush(priority, timestamp) ==
    /\ Idle
    /\ pushes < MaxEvents
    /\ LET event == [priority |-> priority, timestamp |-> timestamp, name |-> pushes + 1]
       IN  /\ heap' = push_T("Event", heap, event)
           /\ elems' = elems \cup {event}
           /\ last' = Call("push", event, Absent)
    /\ pushes' = pushes + 1
    /\ UNCHANGED <<other, guard, mode, out, start, pops>>

\* while let Some(event) = event_queue.pop() { .. }: one turn of the loop;
\* out collects the events in the order they are printed.
EventPopLoop ==
    /\ ~guard.held
    /\ mode \in {"idle", "draining"}
    /\ LET r == pop_T("Event", heap)
       IN  /\ heap' = r.data
           /\ last' = Call("pop", 0, r.ret)
           /\ IF r.ret.some
              THEN /\ out' = Append(IF mode = "idle" THEN << >> ELSE out, r.ret.val)
                   /\ elems' = elems \ {r.ret.val}
                   /\ mode' = "draining"
              ELSE /\ out' = (IF mode = "idle" THEN << >> ELSE out)
                   /\ elems' = elems
                   /\ mode' = "drained"
    /\ start' = (IF mode = "idle" THEN elems ELSE start)
    /\ UNCHANGED <<other, guard, pushes, pops>>

\* ---- practical_heapsort
\* heapsort that hands the heap's backing Vec back as it is.
heapsort_unsorted(data) == into_vec(from(data))

\* heapsort(data): the heap collected from data (from_iter is from of the
\* collected Vec), then into_sorted_vec.
heapsort(data) == into_sorted_vec(from(data))

\* let sorted = heapsort(data.clone());
Heapsort ==
    /\ Idle
    /\ out' = heapsort(nums)
    /\ mode' = "sorted"
    /\ last' = Call("heapsort", nums, Absent)
    /\ UNCHANGED <<heap, other, guard, elems, start, pushes, pops, nums, k, reserved>>
    /\ UNCHANGED OtherExamples

\* ---- practical_k_largest
\* usize addition: with overflow checks (a debug build) a sum past
\* usize::MAX panics, without them (a release build) it wraps.
usize_add(a, b, overflow_checks) ==
    IF a + b > UsizeMax /\ overflow_checks
    THEN [panic |-> TRUE, val |-> 0]
    ELSE [panic |-> FALSE, val |-> (a + b) % (UsizeMax + 1)]

\* with_capacity that allocates whatever is asked for.
with_capacity_unchecked(capacity, size_of) == [panic |-> FALSE, val |-> << >>]

\* BinaryHeap::with_capacity(capacity), i.e. Vec::with_capacity: panics
\* ("capacity overflow") when the capacity exceeds isize::MAX bytes;
\* otherwise an empty heap.
with_capacity(capacity, size_of) ==
    IF capacity * size_of > IsizeMax
    THEN [panic |-> TRUE, val |-> << >>]
    ELSE [panic |-> FALSE, val |-> << >>]

\* The values of k tried: those up to the greatest length of nums, and those
\* around isize::MAX and usize::MAX.
KValues == (0 .. MaxLen) \cup {IsizeMax - 1, IsizeMax, UsizeMax - 1, UsizeMax}

\* let mut min_heap: BinaryHeap<Reverse<i8>> = BinaryHeap::with_capacity(k + 1);
\* size_of::<Reverse<i8>>() is 1.
KLargestCall ==
    /\ Idle
    /\ \E overflow_checks \in BOOLEAN :
           LET capacity == usize_add(k, 1, overflow_checks)
               min_heap == with_capacity(capacity.val, 1)
           IN  /\ mode' = (IF capacity.panic \/ min_heap.panic THEN "panicked" ELSE "loop")
               /\ heap' = min_heap.val
               /\ reserved' = (IF capacity.panic \/ min_heap.panic THEN 0 ELSE capacity.val)
               /\ last' = Call("with_capacity", capacity, Absent)
    /\ pushes' = 0
    /\ UNCHANGED <<other, guard, out, elems, start, pops, nums, k>>
    /\ UNCHANGED OtherExamples

\* for &num in nums { min_heap.push(Reverse(num)); ..
KLargestPush ==
    /\ mode = "loop"
    /\ pushes < Len(nums)
    /\ LET num == nums[pushes + 1]
       IN  /\ heap' = push_T("Reverse", heap, Reverse(num))
           /\ last' = Call("push", num, Absent)
    /\ pushes' = pushes + 1
    /\ mode' = "pushed"
    /\ UNCHANGED <<other, guard, out, elems, start, pops, nums, k, reserved>>
    /\ UNCHANGED OtherExamples

\* The trim of k_largest that acts only once the heap has passed k + 1
\* elements.
KLargestTrimLate ==
    /\ mode = "pushed"
    /\ IF Len(heap) > k + 1
       THEN LET r == pop_T("Reverse", heap)
            IN  /\ heap' = r.data
                /\ last' = Call("pop", 0, r.ret)
       ELSE UNCHANGED <<heap, last>>
    /\ mode' = "loop"
    /\ UNCHANGED <<other, guard, out, elems, start, pushes, pops, nums, k, reserved>>
    /\ UNCHANGED OtherExamples

\* .. if min_heap.len() > k { min_heap.pop(); } }
KLargestTrim ==
    /\ mode = "pushed"
    /\ IF Len(heap) > k
       THEN LET r == pop_T("Reverse", heap)
            IN  /\ heap' = r.data
                /\ last' = Call("pop", 0, r.ret)
       ELSE UNCHANGED <<heap, last>>
    /\ mode' = "loop"
    /\ UNCHANGED <<other, guard, out, elems, start, pushes, pops, nums, k, reserved>>
    /\ UNCHANGED OtherExamples

\* min_heap.into_iter().map(|Reverse(x)| x).collect(): the backing Vec in
\* its order, unwrapped.
KLargestReturn ==
    /\ mode = "loop"
    /\ pushes = Len(nums)
    /\ out' = [i \in DOMAIN heap |-> heap[i].rev]
    /\ heap' = << >>
    /\ mode' = "done"
    /\ last' = Call("into_iter", 0, Absent)
    /\ UNCHANGED <<other, guard, elems, start, pushes, pops, nums, k, reserved>>
    /\ UNCHANGED OtherExamples

\* let mut max_heap: BinaryHeap<i8> = BinaryHeap::with_capacity(k + 1);
\* size_of::<i8>() is 1.
KSmallestCall ==
    /\ Idle
    /\ \E overflow_checks \in BOOLEAN :
           LET capacity == usize_add(k, 1, overflow_checks)
               max_heap == with_capacity(capacity.val, 1)
           IN  /\ mode' = (IF capacity.panic \/ max_heap.panic THEN "panicked" ELSE "loop")
               /\ heap' = max_heap.val
               /\ reserved' = (IF capacity.panic \/ max_heap.panic THEN 0 ELSE capacity.val)
               /\ last' = Call("with_capacity", capacity, Absent)
    /\ pushes' = 0
    /\ UNCHANGED <<other, guard, out, elems, start, pops, nums, k>>
    /\ UNCHANGED OtherExamples

\* for &num in nums { max_heap.push(num); ..
KSmallestPush ==
    /\ mode = "loop"
    /\ pushes < Len(nums)
    /\ LET num == nums[pushes + 1]
       IN  /\ heap' = push(heap, num)
           /\ last' = Call("push", num, Absent)
    /\ pushes' = pushes + 1
    /\ mode' = "pushed"
    /\ UNCHANGED <<other, guard, out, elems, start, pops, nums, k, reserved>>
    /\ UNCHANGED OtherExamples

\* The trim that acts only once the heap has passed k + 1 elements.
KSmallestTrimLate ==
    /\ mode = "pushed"
    /\ IF Len(heap) > k + 1
       THEN LET r == pop(heap)
            IN  /\ heap' = r.data
                /\ last' = Call("pop", 0, r.ret)
       ELSE UNCHANGED <<heap, last>>
    /\ mode' = "loop"
    /\ UNCHANGED <<other, guard, out, elems, start, pushes, pops, nums, k, reserved>>
    /\ UNCHANGED OtherExamples

\* .. if max_heap.len() > k { max_heap.pop(); } }
KSmallestTrim ==
    /\ mode = "pushed"
    /\ IF Len(heap) > k
       THEN LET r == pop(heap)
            IN  /\ heap' = r.data
                /\ last' = Call("pop", 0, r.ret)
       ELSE UNCHANGED <<heap, last>>
    /\ mode' = "loop"
    /\ UNCHANGED <<other, guard, out, elems, start, pushes, pops, nums, k, reserved>>
    /\ UNCHANGED OtherExamples

\* max_heap.into_vec()
KSmallestReturn ==
    /\ mode = "loop"
    /\ pushes = Len(nums)
    /\ out' = into_vec(heap)
    /\ heap' = << >>
    /\ mode' = "done"
    /\ last' = Call("into_vec", 0, Absent)
    /\ UNCHANGED <<other, guard, elems, start, pushes, pops, nums, k, reserved>>
    /\ UNCHANGED OtherExamples

\* ---- practical_task_scheduler: a BinaryHeap<Task>
\* struct Task { priority, name }.  The name tells the tasks apart, as in
\* the example: it is modelled as a number.
Tasks == [priority : 1 .. MaxPrio, name : 1 .. MaxTasks]

\* task_queue.push(Task { priority, name });  the tasks are named in the
\* order of the pushes; elems is the set of the tasks the queue holds.
TaskPush(priority) ==
    /\ Idle
    /\ pushes < MaxTasks
    /\ LET task == [priority |-> priority, name |-> pushes + 1]
       IN  /\ heap' = push_T("Task", heap, task)
           /\ elems' = elems \cup {task}
           /\ last' = Call("push", task, Absent)
    /\ pushes' = pushes + 1
    /\ UNCHANGED <<other, guard, mode, out, start, pops>>

\* while let Some(task) = task_queue.pop() { .. }: one turn of the loop; out
\* collects the tasks in the order they are printed.
TaskPopLoop ==
    /\ ~guard.held
    /\ mode \in {"idle", "draining"}
    /\ LET r == pop_T("Task", heap)
       IN  /\ heap' = r.data
           /\ last' = Call("pop", 0, r.ret)
           /\ IF r.ret.some
              THEN /\ out' = Append(IF mode = "idle" THEN << >> ELSE out, r.ret.val)
                   /\ elems' = elems \ {r.ret.val}
                   /\ mode' = "draining"
              ELSE /\ out' = (IF mode = "idle" THEN << >> ELSE out)
                   /\ elems' = elems
                   /\ mode' = "drained"
    /\ start' = (IF mode = "idle" THEN elems ELSE start)
    /\ UNCHANGED <<other, guard, pushes, pops>>

\* ---- practical_dijkstra_concept: a BinaryHeap<State>
\* struct State { cost, node }
States == [cost : 1 .. MaxCost, node : 1 .. MaxStates]

\* priority_queue.push(State { cost, node });  the nodes are numbered in the
\* order of the pushes; elems is the set of the states the queue holds.
StatePush(cost) ==
    /\ Idle
    /\ pushes < MaxStates
    /\ LET state == [cost |-> cost, node |-> pushes + 1]
       IN  /\ heap' = push_T("State", heap, state)
           /\ elems' = elems \cup {state}
           /\ last' = Call("push", state, Absent)
    /\ pushes' = pushes + 1
    /\ UNCHANGED <<other, guard, mode, out, start, pops>>

\* while let Some(State { cost, node }) = priority_queue.pop() { .. }: one
\* turn of the loop; out collects the states in the order they are printed.
StatePopLoop ==
    /\ ~guard.held
    /\ mode \in {"idle", "draining"}
    /\ LET r == pop_T("State", heap)
       IN  /\ heap' = r.data
           /\ last' = Call("pop", 0, r.ret)
           /\ IF r.ret.some
              THEN /\ out' = Append(IF mode = "idle" THEN << >> ELSE out, r.ret.val)
                   /\ elems' = elems \ {r.ret.val}
                   /\ mode' = "draining"
              ELSE /\ out' = (IF mode = "idle" THEN << >> ELSE out)
                   /\ elems' = elems
                   /\ mode' = "drained"
    /\ start' = (IF mode = "idle" THEN elems ELSE start)
    /\ UNCHANGED <<other, guard, pushes, pops>>

\* ---- practical_merge_sorted_lists
\* for (list_idx, list) in lists.iter().enumerate() {
\*     if !list.is_empty() { heap.push(Reverse((list[0], list_idx, 0))); } }
\* one turn; pushes is the number of lists the loop has taken, so list_idx.
MergeFirst ==
    /\ Idle
    /\ pushes < Len(lists)
    /\ LET list_idx == pushes
           list == lists[list_idx + 1]
       IN  IF list # << >>
           THEN /\ heap' = push_T("Entry", heap, Reverse(<<list[1], list_idx, 0>>))
                /\ last' = Call("push", <<list[1], list_idx, 0>>, Absent)
           ELSE UNCHANGED <<heap, last>>
    /\ pushes' = pushes + 1
    /\ UNCHANGED <<other, guard, mode, out, elems, start, pops, nums, k, reserved>>
    /\ UNCHANGED OtherExamples

\* while let Some(Reverse((val, list_idx, elem_idx))) = heap.pop() {
\*     result.push(val); .. push the next element of the same list .. }
\* one turn, and after the last one: result is returned.  out is result.
MergeLoop ==
    /\ ~guard.held
    /\ \/ mode = "idle" /\ pushes = Len(lists)
       \/ mode = "draining"
    /\ LET r == pop_T("Entry", heap)
       IN  IF r.ret.some
           THEN LET val == r.ret.val.rev[1]
                    list_idx == r.ret.val.rev[2]
                    elem_idx == r.ret.val.rev[3]
                    next_idx == elem_idx + 1
                    list == lists[list_idx + 1]
                IN  /\ out' = Append(out, val)
                    /\ heap' = (IF next_idx < Len(list)
                                THEN push_T("Entry", r.data,
                                            Reverse(<<list[next_idx + 1], list_idx, next_idx>>))
                                ELSE r.data)
                    /\ mode' = "draining"
                    /\ last' = Call("pop", 0, r.ret)
           ELSE /\ mode' = "done"
                /\ last' = Call("pop", 0, r.ret)
                /\ UNCHANGED <<heap, out>>
    /\ UNCHANGED <<other, guard, elems, start, pushes, pops, nums, k, reserved>>
    /\ UNCHANGED OtherExamples

\* ---- sliding_window_example (vecdeque_examples.rs)
\* let window_size: usize = 3;
window_size == 3

\* The values the data is made of: the ends of i8 and values next to zero.
DataValues == {I8Min, 0, 1, I8Max}

\* i8 addition: with overflow checks a sum outside i8 panics, without them
\* it wraps.
i8_add(a, b, overflow_checks) ==
    IF (a + b > I8Max \/ a + b < I8Min) /\ overflow_checks
    THEN [panic |-> TRUE, val |-> 0]
    ELSE [panic |-> FALSE, val |-> ((a + b - I8Min) % 2 ^ I8Bits) + I8Min]

\* iter().sum::<i8>(): the fold of i8 addition over the values, front
\* first, from acc.
RECURSIVE sum_i8(_, _, _)
sum_i8(s, acc, overflow_checks) ==
    IF s = << >>
    THEN [panic |-> FALSE, val |-> acc]
    ELSE LET next == i8_add(acc, Head(s), overflow_checks)
         IN  IF next.panic THEN next ELSE sum_i8(Tail(s), next.val, overflow_checks)

\* sum as f64 / window_size as f64: both conversions are exact, and the
\* quotient is kept as the pair it is the quotient of.
average(sum, size) == [sum |-> sum, over |-> size]

\* for value in data { window.push_back(value); ..
WindowPush ==
    /\ mode \in {"idle", "loop"}
    /\ pushes < Len(nums)
    /\ window' = Append(window, nums[pushes + 1])
    /\ pushes' = pushes + 1
    /\ mode' = "pushed"
    /\ last' = Call("push_back", nums[pushes + 1], Absent)
    /\ UNCHANGED <<heap, other, guard, out, elems, start, pops, nums, k, reserved>>
    /\ UNCHANGED <<lists, cache, now, interner, allocated, build, fn>>

\* The slide that keeps the oldest value in the window.
WindowSlideKeep ==
    /\ mode = "pushed"
    /\ IF Len(window) = window_size
       THEN LET sum == sum_i8(window, 0, build = "debug")
            IN  IF sum.panic
                THEN mode' = "panicked" /\ UNCHANGED <<out, window>>
                ELSE /\ out' = Append(out, average(sum.val, window_size))
                     /\ window' = window
                     /\ mode' = "loop"
       ELSE mode' = "loop" /\ UNCHANGED <<out, window>>
    /\ UNCHANGED <<heap, other, guard, last, elems, start, pushes, pops, nums, k, reserved>>
    /\ UNCHANGED <<lists, cache, now, interner, allocated, build, fn>>

\* .. if window.len() == window_size { let avg = ..; averages.push(avg);
\*    window.pop_front(); } }     out is averages.
WindowSlide ==
    /\ mode = "pushed"
    /\ IF Len(window) = window_size
       THEN LET sum == sum_i8(window, 0, build = "debug")
            IN  IF sum.panic
                THEN mode' = "panicked" /\ UNCHANGED <<out, window>>
                ELSE /\ out' = Append(out, average(sum.val, window_size))
                     /\ window' = Tail(window)
                     /\ mode' = "loop"
       ELSE mode' = "loop" /\ UNCHANGED <<out, window>>
    /\ UNCHANGED <<heap, other, guard, last, elems, start, pushes, pops, nums, k, reserved>>
    /\ UNCHANGED <<lists, cache, now, interner, allocated, build, fn>>

\* The loop is over: println!("Moving averages ..", window_size, averages)
WindowEnd ==
    /\ mode \in {"idle", "loop"}
    /\ pushes = Len(nums)
    /\ mode' = "done"
    /\ UNCHANGED <<heap, other, guard, last, out, elems, start, pushes, pops, nums, k, reserved>>
    /\ UNCHANGED OtherExamples

\* ---- cache_example (ahash_examples.rs): a Cache<String, String>
Keys == {"user:123", "user:456"}

CachedValues == {"Alice", "Bob"}

\* AHashMap::insert: the entry of key is added or replaced.
map_insert(map, key, entry) ==
    [x \in DOMAIN map \cup {key} |-> IF x = key THEN entry ELSE map[x]]

\* Cache::insert(key, value).  elems notes, for every key inserted, the
\* value and the time of its last insert.
CacheInsert(key, value) ==
    /\ cache' = [cache EXCEPT !.entries =
                     map_insert(@, key, [value |-> value,
                                         expires_at |-> now + cache.default_ttl])]
    /\ elems' = map_insert(elems, key, [value |-> value, at |-> now])
    /\ last' = Call("insert", <<key, value>>, Absent)
    /\ UNCHANGED <<heap, other, guard, mode, out, start, pushes, pops, nums, k, reserved>>
    /\ UNCHANGED <<lists, window, now, interner, allocated, build, fn>>

\* Cache::get that still returns the value at the instant of expiry.
CacheGetLate(key) ==
    /\ last' = Call("get", key,
                    IF key \in DOMAIN cache.entries
                    THEN LET entry == cache.entries[key]
                         IN  IF now <= entry.expires_at THEN Some(entry.value) ELSE Absent
                    ELSE Absent)
    /\ UNCHANGED <<heap, other, guard, mode, out, elems, start, pushes, pops, nums, k, reserved>>
    /\ UNCHANGED OtherExamples

\* Cache::get(key): entries.get(key).and_then(|entry| if Instant::now() <
\* entry.expires_at { Some(&entry.value) } else { None })
CacheGet(key) ==
    /\ last' = Call("get", key,
                    IF key \in DOMAIN cache.entries
                    THEN LET entry == cache.entries[key]
                         IN  IF now < entry.expires_at THEN Some(entry.value) ELSE Absent
                    ELSE Absent)
    /\ UNCHANGED <<heap, other, guard, mode, out, elems, start, pushes, pops, nums, k, reserved>>
    /\ UNCHANGED OtherExamples

\* Time passes: Instant::now() is later at the next call.
Tick ==
    /\ now < MaxTime
    /\ now' = now + 1
    /\ UNCHANGED <<heap, other, guard, last, mode, out, elems, start, pushes, pops, nums, k, reserved>>
    /\ UNCHANGED <<lists, window, cache, interner, allocated, build, fn>>

\* ---- string_interning (fxhash_examples.rs)
Words == {"hello", "world", "rust"}

\* Rc::from(s): a new allocation, the ptr-th, holding a copy of s.
Rc(ptr, s) == [ptr |-> ptr, str |-> s]

\* FxHashSet<Rc<str>>::get(s): the stored Rc whose string equals s, if any
\* (an Rc<str> hashes and compares as its string).
set_get(strings, s) ==
    IF \E rc \in strings : rc.str = s
    THEN Some(CHOOSE rc \in strings : rc.str = s)
    ELSE Absent

\* FxHashSet::insert(rc): rc is added unless an equal string is stored.
set_insert(strings, rc) ==
    IF \E x \in strings : x.str = rc.str THEN strings ELSE strings \cup {rc}

\* An intern that never looks the string up.
InternFresh ==
    /\ mode \in {"idle", "loop"}
    /\ pushes < Len(nums)
    /\ LET s == nums[pushes + 1]
           rc == Rc(allocated + 1, s)
       IN  /\ allocated' = allocated + 1
           /\ interner' = [interner EXCEPT !.strings = set_insert(@, rc)]
           /\ out' = Append(out, rc)
           /\ last' = Call("intern", s, Some(rc))
    /\ pushes' = pushes + 1
    /\ mode' = "loop"
    /\ UNCHANGED <<heap, other, guard, elems, start, pops, nums, k, reserved>>
    /\ UNCHANGED <<lists, window, cache, now, build, fn>>

\* for word in words { let interned = interner.intern(word); .. }: one
\* turn; nums is words, out the Rcs returned, in order.
Intern ==
    /\ mode \in {"idle", "loop"}
    /\ pushes < Len(nums)
    /\ LET s == nums[pushes + 1]
           existing == set_get(interner.strings, s)
           rc == Rc(allocated + 1, s)
       IN  IF existing.some
           THEN /\ out' = Append(out, existing.val)
                /\ last' = Call("intern", s, existing)
                /\ UNCHANGED <<interner, allocated>>
           ELSE /\ allocated' = allocated + 1
                /\ interner' = [interner EXCEPT !.strings = set_insert(@, rc)]
                /\ out' = Append(out, rc)
                /\ last' = Call("intern", s, Some(rc))
    /\ pushes' = pushes + 1
    /\ mode' = "loop"
    /\ UNCHANGED <<heap, other, guard, elems, start, pops, nums, k, reserved>>
    /\ UNCHANGED <<lists, window, cache, now, build, fn>>

\* interner.stats(), after the loop.
Stats ==
    /\ mode \in {"idle", "loop"}
    /\ pushes = Len(nums)
    /\ last' = Call("stats", 0, Some(Cardinality(interner.strings)))
    /\ mode' = "done"
    /\ UNCHANGED <<heap, other, guard, out, elems, start, pushes, pops, nums, k, reserved>>
    /\ UNCHANGED OtherExamples

\* ---- cmp and == of Task, Event and State
\* #[derive(PartialEq)]: field by field, for all the fields, which is the
\* equality of the records.
derived_eq(a, b) == a = b

\* Ord::cmp of the type named by type.
cmp_of(type, a, b) ==
    CASE type = "Task" -> Task_cmp(a, b)
      [] type = "Event" -> Event_cmp(a, b)
      [] type = "State" -> State_cmp(a, b)

\* An eq that looks at what cmp looks at.
CompareByKey ==
    /\ Idle
    /\ last.op = "new"
    /\ last' = Call("cmp", nums, [cmp |-> cmp_of(fn, nums[1], nums[2]),
                                  eq |-> cmp_of(fn, nums[1], nums[2]) = "Equal"])
    /\ UNCHANGED <<heap, other, guard, mode, out, elems, start, pushes, pops, nums, k, reserved>>
    /\ UNCHANGED OtherExamples

\* a.cmp(&b) and a == b, for the pair nums = <<a, b>> of values of the type
\* fn names.
Compare ==
    /\ Idle
    /\ last.op = "new"
    /\ last' = Call("cmp", nums, [cmp |-> cmp_of(fn, nums[1], nums[2]),
                                  eq |-> derived_eq(nums[1], nums[2])])
    /\ UNCHANGED <<heap, other, guard, mode, out, elems, start, pushes, pops, nums, k, reserved>>
    /\ UNCHANGED OtherExamples

\* No function with an input of its own is under way.
NoInput == UNCHANGED <<nums, k, reserved>> /\ UNCHANGED OtherExamples

NoCount == UNCHANGED <<pushes, pops>> /\ NoInput

\* heap2 does not exist: bulk_operations builds it and appends it at once,
\* so the calls on the first heap are made while there is no second one.
Sole == other = << >>

\* Every operation of the heap examples, on heaps of at most MaxLen elements.
Next ==
    \/ \E x \in Values : Sole /\ Push(x) /\ NoCount
    \/ Sole /\ Pop /\ NoCount
    \/ Sole /\ Peek /\ NoCount
    \/ Sole /\ PeekMut /\ NoCount
    \/ \E v \in Values : Sole /\ DerefMutWrite(v) /\ NoCount
    \/ Sole /\ DropPeekMut /\ NoCount
    \/ \E v \in SeqsUpTo(Values, MaxOther) : FromOther(v) /\ NoCount
    \/ AppendOther /\ NoCount
    \/ \E v \in SeqsUpTo(Values, MaxOther) : Sole /\ Extend(v) /\ NoCount
    \/ \E K \in SUBSET Values : Sole /\ Retain(K) /\ NoCount
    \/ Sole /\ PopLoop /\ NoCount
    \/ Sole /\ IntoSortedVec /\ NoCount
    \/ Sole /\ IntoVec /\ NoCount

Spec == Init /\ [][Next]_vars

\* Only push, pop, append, extend, retain and bulk build (Init, FromOther):
\* no guard is ever taken and no heap is consumed.
NextBulk ==
    \/ \E x \in Values : Sole /\ Push(x) /\ NoCount
    \/ Sole /\ Pop /\ NoCount
    \/ \E v \in SeqsUpTo(Values, MaxOther) : FromOther(v) /\ NoCount
    \/ AppendOther /\ NoCount
    \/ \E v \in SeqsUpTo(Values, MaxOther) : Sole /\ Extend(v) /\ NoCount
    \/ \E K \in SUBSET Values : Sole /\ Retain(K) /\ NoCount

SpecBulk == Init /\ [][NextBulk]_vars

\* Only push and pop, on a heap made by BinaryHeap::new(), with the calls
\* counted.
InitPushPop == Init /\ heap = << >>

NextPushPop ==
    \/ \E x \in Values :
           /\ pushes < MaxPushes
           /\ Push(x)
           /\ pushes' = pushes + 1
           /\ pops' = pops
           /\ NoInput
    \/ /\ Pop
       /\ pops' = (IF heap # << >> THEN pops + 1 ELSE pops)
       /\ pushes' = pushes
       /\ NoInput

SpecPushPop == InitPushPop /\ [][NextPushPop]_vars

\* min_heap_with_reverse: the pushes, the peek and the pop loop on a heap of
\* Reverse values that starts empty.
InitMinHeap == Init /\ heap = << >>

NextMinHeap ==
    \/ \E val \in Values : MinHeapPush(val) /\ NoCount
    \/ MinHeapPeek /\ NoCount
    \/ MinHeapPopLoop /\ NoCount

SpecMinHeap == InitMinHeap /\ [][NextMinHeap]_vars

\* custom_types_in_heap, example 2: events pushed in any order onto an empty
\* queue, then the pop loop.
InitEvents ==
    /\ heap = << >>
    /\ elems = {}
    /\ last = Call("new", << >>, Absent)
    /\ other = << >>
    /\ guard = NoGuard
    /\ mode = "idle"
    /\ out = << >>
    /\ start = {}
    /\ pushes = 0
    /\ pops = 0
    /\ reserved = 0
    /\ nums = << >>
    /\ k = 0
    /\ InitOtherExamples

NextEvents ==
    \/ \E priority \in 1 .. MaxPrio, timestamp \in 1 .. MaxTs :
           EventPush(priority, timestamp) /\ NoInput
    \/ EventPopLoop /\ NoInput

SpecEvents == InitEvents /\ [][NextEvents]_vars

\* practical_heapsort: heapsort called on any data.
InitHeapsort ==
    /\ nums \in SeqsUpTo(Values, MaxLen)
    /\ heap = << >>
    /\ elems = NoElems
    /\ last = Call("new", << >>, Absent)
    /\ other = << >>
    /\ guard = NoGuard
    /\ mode = "idle"
    /\ out = << >>
    /\ start = NoElems
    /\ pushes = 0
    /\ pops = 0
    /\ reserved = 0
    /\ k = 0
    /\ InitOtherExamples

NextHeapsort == Heapsort

SpecHeapsort == InitHeapsort /\ [][NextHeapsort]_vars

\* practical_k_largest: k_largest called on any nums and k.
InitKLargest ==
    /\ nums \in SeqsUpTo(Values, MaxLen)
    /\ k \in KValues
    /\ heap = << >>
    /\ elems = NoElems
    /\ last = Call("new", << >>, Absent)
    /\ other = << >>
    /\ guard = NoGuard
    /\ mode = "idle"
    /\ out = << >>
    /\ start = NoElems
    /\ pushes = 0
    /\ pops = 0
    /\ reserved = 0
    /\ InitOtherExamples

NextKLargest ==
    \/ KLargestCall
    \/ KLargestPush
    \/ KLargestTrim
    \/ KLargestReturn

SpecKLargest == InitKLargest /\ [][NextKLargest]_vars

\* practical_k_largest: k_smallest called on any nums and k.
InitKSmallest == InitKLargest

NextKSmallest ==
    \/ KSmallestCall
    \/ KSmallestPush
    \/ KSmallestTrim
    \/ KSmallestReturn

SpecKSmallest == InitKSmallest /\ [][NextKSmallest]_vars

\* practical_k_largest: either of k_largest and k_smallest called on any
\* nums and k.
InitKHeaps ==
    /\ fn \in {"k_largest", "k_smallest"}
    /\ nums \in SeqsUpTo(Values, MaxLen)
    /\ k \in KValues
    /\ heap = << >>
    /\ elems = NoElems
    /\ last = Call("new", << >>, Absent)
    /\ other = << >>
    /\ guard = NoGuard
    /\ mode = "idle"
    /\ out = << >>
    /\ start = NoElems
    /\ pushes = 0
    /\ pops = 0
    /\ reserved = 0
    /\ lists = << >>
    /\ window = << >>
    /\ cache = [entries |-> << >>, default_ttl |-> 0]
    /\ now = 0
    /\ interner = [strings |-> {}]
    /\ allocated = 0
    /\ build = "release"

NextKHeaps ==
    \/ fn = "k_largest" /\ NextKLargest
    \/ fn = "k_smallest" /\ NextKSmallest

SpecKHeaps == InitKHeaps /\ [][NextKHeaps]_vars

\* The ascending-sorted lists of up to n values.
SortedLists(S, n) == {s \in SeqsUpTo(S, n) : \A i \in 1 .. Len(s) - 1 : s[i] <= s[i + 1]}

\* practical_merge_sorted_lists: merge_k_sorted called on any lists of
\* ascending-sorted lists.
InitMerge ==
    /\ lists \in SeqsUpTo(SortedLists(1 .. MaxLists, MaxLists), MaxLists)
    /\ heap = << >>
    /\ elems = NoElems
    /\ last = Call("new", << >>, Absent)
    /\ other = << >>
    /\ guard = NoGuard
    /\ mode = "idle"
    /\ out = << >>
    /\ start = NoElems
    /\ pushes = 0
    /\ pops = 0
    /\ reserved = 0
    /\ nums = << >>
    /\ k = 0
    /\ window = << >>
    /\ cache = [entries |-> << >>, default_ttl |-> 0]
    /\ now = 0
    /\ interner = [strings |-> {}]
    /\ allocated = 0
    /\ fn = "none"
    /\ build = "release"

NextMerge ==
    \/ MergeFirst
    \/ MergeLoop

SpecMerge == InitMerge /\ [][NextMerge]_vars

\* practical_task_scheduler: tasks pushed in any order onto an empty queue,
\* then the pop loop.
InitTasks == InitEvents

NextTasks ==
    \/ \E priority \in 1 .. MaxPrio : TaskPush(priority) /\ NoInput
    \/ TaskPopLoop /\ NoInput

SpecTasks == InitTasks /\ [][NextTasks]_vars

\* practical_dijkstra_concept: states pushed in any order onto an empty
\* queue, then the pop loop.
InitStates == InitEvents

NextStates ==
    \/ \E cost \in 1 .. MaxCost : StatePush(cost) /\ NoInput
    \/ StatePopLoop /\ NoInput

SpecStates == InitStates /\ [][NextStates]_vars

\* sliding_window_example: the loop run over any data, in either build.
InitWindow ==
    /\ nums \in SeqsUpTo(DataValues, MaxData)
    /\ build \in {"debug", "release"}
    /\ window = << >>
    /\ out = << >>
    /\ mode = "idle"
    /\ pushes = 0
    /\ last = Call("new", << >>, Absent)
    /\ heap = << >>
    /\ elems = NoElems
    /\ other = << >>
    /\ guard = NoGuard
    /\ start = NoElems
    /\ pops = 0
    /\ reserved = 0
    /\ k = 0
    /\ lists = << >>
    /\ cache = [entries |-> << >>, default_ttl |-> 0]
    /\ now = 0
    /\ interner = [strings |-> {}]
    /\ allocated = 0
    /\ fn = "none"

NextWindow ==
    \/ WindowPush
    \/ WindowSlide
    \/ WindowEnd

SpecWindow == InitWindow /\ [][NextWindow]_vars

\* cache_example: Cache::new(ttl) for any TTL, then inserts and gets at any
\* times.
InitCache ==
    /\ \E ttl \in 0 .. MaxTtl : cache = [entries |-> << >>, default_ttl |-> ttl]
    /\ now = 0
    /\ elems = << >>
    /\ last = Call("new", << >>, Absent)
    /\ heap = << >>
    /\ other = << >>
    /\ guard = NoGuard
    /\ mode = "idle"
    /\ out = << >>
    /\ start = NoElems
    /\ pushes = 0
    /\ pops = 0
    /\ reserved = 0
    /\ nums = << >>
    /\ k = 0
    /\ lists = << >>
    /\ window = << >>
    /\ interner = [strings |-> {}]
    /\ allocated = 0
    /\ fn = "none"
    /\ build = "release"

NextCache ==
    \/ \E key \in Keys, value \in CachedValues : CacheInsert(key, value)
    \/ \E key \in Keys : CacheGet(key)
    \/ Tick

SpecCache == InitCache /\ [][NextCache]_vars

\* string_interning: Interner::new(), then any words interned one after the
\* other, then stats().
InitInterner ==
    /\ nums \in SeqsUpTo(Words, MaxWords)
    /\ interner = [strings |-> {}]
    /\ allocated = 0
    /\ fn = "none"
    /\ out = << >>
    /\ mode = "idle"
    /\ pushes = 0
    /\ last = Call("new", << >>, Absent)
    /\ heap = << >>
    /\ elems = NoElems
    /\ other = << >>
    /\ guard = NoGuard
    /\ start = NoElems
    /\ pops = 0
    /\ reserved = 0
    /\ k = 0
    /\ lists = << >>
    /\ window = << >>
    /\ cache = [entries |-> << >>, default_ttl |-> 0]
    /\ now = 0
    /\ build = "release"

NextInterner ==
    \/ Intern
    \/ Stats

SpecInterner == InitInterner /\ [][NextInterner]_vars

\* Any two tasks, any two events or any two states, compared.
InitCompare ==
    /\ \/ fn = "Task" /\ nums \in Tasks \X Tasks
       \/ fn = "Event" /\ nums \in Events \X Events
       \/ fn = "State" /\ nums \in States \X States
    /\ last = Call("new", << >>, Absent)
    /\ heap = << >>
    /\ elems = NoElems
    /\ other = << >>
    /\ guard = NoGuard
    /\ mode = "idle"
    /\ out = << >>
    /\ start = NoElems
    /\ pushes = 0
    /\ pops = 0
    /\ reserved = 0
    /\ k = 0
    /\ lists = << >>
    /\ window = << >>
    /\ cache = [entries |-> << >>, default_ttl |-> 0]
    /\ now = 0
    /\ interner = [strings |-> {}]
    /\ allocated = 0
    /\ build = "release"

NextCompare == Compare

SpecCompare == InitCompare /\ [][NextCompare]_vars

\* ------------------------------------------------------------------ claims

\* C1: after any sequence of push, pop, append, extend, retain and bulk-build
\* operations, every element of the backing Vec is >= both of its children
\* (positions 2i+1 and 2i+2, where they exist).  The same holds of the
\* second heap, which is bulk-built.
C1_HeapProperty ==
    /\ \A i \in 0 .. Len(heap) - 1 :
           /\ (2 * i + 1 < Len(heap) => At(heap, i) >= At(heap, 2 * i + 1))
           /\ (2 * i + 2 < Len(heap) => At(heap, i) >= At(heap, 2 * i + 2))
    /\ IsHeap(other)

\* A heap with both children of the root and a grandchild, not all equal,
\* just after a retain.
C1_Witness ==
    /\ last.op = "retain"
    /\ Len(heap) >= 4
    /\ heap[1] > heap[4]

\* C2: after every mutation, with no guard alive, peek() on a non-empty heap
\* returns the maximum of the multiset the heap holds, and that element is
\* the one at index 0.
C2_PeekIsMax ==
    (~guard.held /\ heap # << >>) =>
        /\ peek(heap).some
        /\ peek(heap).val = BagMax(elems)
        /\ Count(heap) = elems
        /\ heap[1] = peek(heap).val
        /\ \A i \in DOMAIN heap : heap[i] <= heap[1]

\* After a push of the new maximum onto a heap of three smaller elements.
C2_Witness ==
    /\ last.op = "push"
    /\ Len(heap) = 4
    /\ heap[1] = last.arg
    /\ \A i \in 2 .. 4 : heap[i] < heap[1]

\* popping all of [3,1,4,1,5,9,2,6] yields [9,6,5,4,3,2,1,1].
C3_Example ==
    /\ pop_all(push(push(push(push(push(push(push(push(<< >>,
           3), 1), 4), 1), 5), 9), 2), 6)) = <<9, 6, 5, 4, 3, 2, 1, 1>>
    /\ heapsort_descending(<<3, 1, 4, 1, 5, 9, 2, 6>>) = <<9, 6, 5, 4, 3, 2, 1, 1>>

\* C3: from any reachable heap, pop() repeated until it returns None yields
\* a non-increasing sequence: at every turn of the loop the values popped so
\* far are the first ones of the descending sort of the multiset the heap
\* held when the loop began, and what is left in the heap is the rest; once
\* pop has returned None the output is exactly that descending sort.
C3_PopOrder ==
    /\ C3_Example
    /\ mode \in {"draining", "drained"} =>
           /\ \A i \in 1 .. Len(out) - 1 : out[i + 1] <= out[i]
           /\ Len(out) <= Size(start)
           /\ out = SubSeq(SortDesc(start), 1, Len(out))
           /\ Count(heap) = [v \in Values |-> start[v] - Count(out)[v]]
    /\ mode = "drained" =>
           /\ ~last.ret.some
           /\ heap = << >>
           /\ out = SortDesc(start)

\* A finished loop that popped four elements, with a duplicate among them.
C3_Witness ==
    /\ mode = "drained"
    /\ Len(out) = 4
    /\ out[1] > out[2]
    /\ out[2] = out[3]
    /\ out[3] > out[4]

\* C4 as claimed: into_sorted_vec of a heap built from S yields the
\* descending sort of S.
C4_SortedDescending ==
    mode = "sorted" => out = SortDesc(start)

\* a heap built from [5,2,8,1,9] yields [1,2,5,8,9].
C4_Example ==
    /\ into_sorted_vec(from(<<5, 2, 8, 1, 9>>)) = <<1, 2, 5, 8, 9>>
    /\ into_sorted_vec(push(push(push(push(push(<< >>, 5), 2), 8), 1), 9))
           = <<1, 2, 5, 8, 9>>

\* C4, amended: into_sorted_vec of a heap built from S (by bulk build or by
\* pushes) yields the ascending sort of S, of length |S|, also for the empty,
\* the single-element and the all-equal S.
C4_SortedAscending ==
    /\ C4_Example
    /\ mode = "sorted" =>
           /\ out = SortAsc(start)
           /\ Len(out) = Size(start)
           /\ heap = << >>

\* A consumed heap of four elements, not all equal.
C4_Witness ==
    /\ mode = "sorted"
    /\ Len(out) = 4
    /\ out[1] < out[2]
    /\ out[3] < out[4]

\* The calls that return an Option.
QueryOps == {"peek", "peek_mut", "pop"}

\* C5: peek, peek_mut and pop on an empty heap return None, hand out no
\* guard and leave the heap empty and unchanged; and None is returned by
\* these calls on an empty heap only.
C5_EmptyIsAbsent ==
    [][last'.op \in QueryOps =>
          /\ heap = << >> =>
                 /\ ~last'.ret.some
                 /\ heap' = << >>
                 /\ elems' = elems
                 /\ ~guard'.held
          /\ ~last'.ret.some => heap = << >>]_vars

\* pop, peek or peek_mut has just returned None on an empty heap.
C5_Witness ==
    /\ last.op \in QueryOps
    /\ ~last.ret.some
    /\ heap = << >>
    /\ ~guard.held

\* heap [10,7,8,3,5,6] with the root set to 1 peeks 8 after the release.
C6_Example ==
    LET h == sift_down(<<1, 7, 8, 3, 5, 6>>, 0)
    IN  /\ IsHeap(<<10, 7, 8, 3, 5, 6>>)
        /\ IsHeap(h)
        /\ peek(h) = Some(8)

\* C6: when the guard of peek_mut is used to overwrite the maximum (with a
\* smaller value, or any other) and is then released, the heap holds the old
\* multiset with the old maximum replaced by the value written, satisfies
\* the heap property, and peek() returns the maximum of that multiset.
C6_PeekMutRelease ==
    [][(last'.op = "deref_mut" =>
            /\ guard.original_len = 0 => heap[1] = BagMax(Count(heap))
            /\ Count(heap') = BagPut(BagTake(Count(heap), heap[1]), last'.arg)
            /\ elems' = BagPut(BagTake(elems, heap[1]), last'.arg))
       /\ (last'.op = "drop" =>
            /\ C6_Example
            /\ ~guard'.held
            /\ Count(heap') = Count(heap)
            /\ Count(heap') = elems'
            /\ IsHeap(heap')
            /\ peek(heap') = Some(BagMax(Count(heap))))]_vars

\* A guard was released after a value smaller than another element had been
\* written to the root of a heap of at least three elements.
C6_Witness ==
    /\ last.op = "drop"
    /\ last.arg # 0
    /\ Len(heap) >= 3
    /\ last.arg < heap[1]

\* C7: the heap property can be false only while a PeekMut guard is alive:
\* in every state without a guard the backing Vec is a heap holding the
\* multiset its operations account for, and every step that ends a guard's
\* life leaves a heap.
C7_ValidUnlessGuarded ==
    ~guard.held => (IsHeap(heap) /\ Count(heap) = elems)

\* The guard is gone and the root it left behind was moved down: the heap
\* is full, and the value found at the root on release is the smallest.
C7_Witness ==
    /\ ~guard.held
    /\ last.op = "drop"
    /\ Len(heap) = MaxLen
    /\ last.arg # 0
    /\ \A i \in DOMAIN heap : last.arg <= heap[i]
    /\ last.arg < heap[1]

\* C8: push makes the heap one longer, pop on a non-empty heap one shorter,
\* pop on an empty heap leaves the length 0; so the length is the number of
\* pushes minus the number of pops that returned an element.
C8_SizeConservation ==
    [][/\ last'.op = "push" => Len(heap') = Len(heap) + 1
       /\ (last'.op = "pop" /\ heap # << >>) =>
              (Len(heap') = Len(heap) - 1 /\ last'.ret.some)
       /\ (last'.op = "pop" /\ heap = << >>) =>
              (Len(heap') = 0 /\ ~last'.ret.some)
       /\ Len(heap') = pushes' - pops']_vars

\* Pushes, successful pops and then a pop on the heap they emptied.
C8_Witness ==
    /\ pushes = MaxPushes
    /\ pops = MaxPushes
    /\ heap = << >>
    /\ last.op = "pop"
    /\ ~last.ret.some

\* heaps built from [1,2,3] and [4,5,6] pop as [6,5,4,3,2,1] after append.
C9_Example ==
    LET r == append(from(<<1, 2, 3>>), from(<<4, 5, 6>>))
    IN  /\ pop_all(r.self) = <<6, 5, 4, 3, 2, 1>>
        /\ r.other = << >>

\* C9: a.append(b) leaves in a exactly the multiset union of the old a and
\* the old b (a.len() = old a.len() + old b.len()), leaves b empty, and a
\* satisfies the heap property.
C9_Append ==
    [][last'.op = "append" =>
          /\ C9_Example
          /\ Count(heap') = BagAdd(Count(heap), Count(other))
          /\ Len(heap') = Len(heap) + Len(other)
          /\ other' = << >>
          /\ IsHeap(heap')]_vars

\* An append of a two-element heap onto a two-element heap whose root is
\* smaller than the other heap's.
C9_Witness ==
    /\ last.op = "append"
    /\ last.arg = 2
    /\ Len(heap) = 4
    /\ other = << >>
    /\ heap[1] > heap[2]
    /\ heap[1] > heap[3]

\* C10: on an empty heap, push(x) followed at once by pop() returns x and
\* leaves the heap empty.
C10_PushPop ==
    [][(last.op = "push" /\ Len(heap) = 1 /\ last'.op = "pop") =>
          (last'.ret = Some(last.arg) /\ heap' = << >>)]_vars

\* push(MaxVal) then pop() on the new heap: MaxVal came back.
C10_Witness ==
    /\ pushes = 1
    /\ pops = 1
    /\ last.op = "pop"
    /\ last.ret = Some(MaxVal)
    /\ heap = << >>

\* C11: peek() mutates nothing: the backing Vec, and so its length, is the
\* same after the call as before, on an empty and on a non-empty heap, and
\* so after any number of peeks; the call returns the root.
C11_PeekIsPure ==
    [][last'.op = "peek" =>
          /\ heap' = heap
          /\ Len(heap') = Len(heap)
          /\ <<other', guard', elems'>> = <<other, guard, elems>>
          /\ last'.ret = (IF heap = << >> THEN Absent ELSE Some(heap[1]))]_vars

\* peek() has just returned the maximum of a heap of four elements.
C11_Witness ==
    /\ last.op = "peek"
    /\ last.ret = Some(MaxVal)
    /\ Len(heap) = 4
    /\ heap[4] < MaxVal

\* C12: retain(p) leaves exactly the sub-multiset of the elements for which
\* p is true, and a Vec that satisfies the heap property.
C12_Retain ==
    [][last'.op = "retain" =>
          /\ Count(heap') =
                 [v \in Values |-> IF v \in last'.arg THEN Count(heap)[v] ELSE 0]
          /\ \A i \in DOMAIN heap' : heap'[i] \in last'.arg
          /\ IsHeap(heap')]_vars

\* retain has kept the elements other than 2, and three of them are left.
C12_Witness ==
    /\ last.op = "retain"
    /\ last.arg = Values \ {2}
    /\ Len(heap) = 3
    /\ heap[1] > heap[3]

\* C13: extend(items) is equivalent to pushing each item in turn: the same
\* multiset, the heap property, the same length and the same sequence under
\* repeated pop.
C13_ExtendIsPushes ==
    [][last'.op = "extend" =>
          LET items == last'.arg
              pushed == push_all(heap, items)
          IN  /\ Count(heap') = BagAdd(Count(heap), Count(items))
              /\ Count(heap') = Count(pushed)
              /\ IsHeap(heap')
              /\ IsHeap(pushed)
              /\ Len(heap') = Len(pushed)
              /\ pop_all(heap') = pop_all(pushed)]_vars

\* An extend by two items in ascending order, the second of which became
\* the root of what is now a heap of four.
C13_Witness ==
    /\ last.op = "extend"
    /\ Len(last.arg) = 2
    /\ last.arg[1] < last.arg[2]
    /\ Len(heap) = 4
    /\ heap[1] = last.arg[2]
    /\ heap[2] < heap[1]

\* C14: bulk construction from a sequence S gives a Vec that satisfies the
\* heap property and holds exactly the multiset of S: the same multiset and
\* the same pop sequence as pushing the elements of S one by one.
C14_BulkBuild ==
    last.op \in {"new", "from"} =>
        LET S == last.arg
            pushed == push_all(<< >>, S)
        IN  /\ IsHeap(heap)
            /\ Len(heap) = Len(S)
            /\ Count(heap) = Count(S)
            /\ Count(heap) = Count(pushed)
            /\ pop_all(heap) = pop_all(pushed)
            /\ pop_all(heap) = SortDesc(Count(S))

\* A heap built from four elements that is neither the input as it was nor
\* the Vec that four pushes build.
C14_Witness ==
    /\ last.op = "from"
    /\ Len(last.arg) = 4
    /\ heap # last.arg
    /\ heap # push_all(<< >>, last.arg)

\* C15: into_vec returns the backing Vec verbatim: as long as the heap was,
\* a permutation of its elements, with the heap property at every index and
\* so the maximum first (and not sorted, as the witness shows).
C15_IntoVec ==
    [][mode' = "vec" =>
          /\ out' = heap
          /\ Len(out') = Len(heap)
          /\ Count(out') = elems
          /\ IsHeap(out')
          /\ out' # << >> => out'[1] = BagMax(elems)]_vars

\* into_vec handed back three elements that are sorted in neither
\* direction.
C15_Witness ==
    /\ mode = "vec"
    /\ Len(out) = 3
    /\ out[1] > out[3]
    /\ out[3] > out[2]

\* C16: in a heap of Reverse values, peek returns the minimum of the stored
\* values (None when there is none) and the pop loop yields the values in
\* non-decreasing order: what it has yielded so far is the front of the
\* ascending sort of what the heap held, and all of it at the end.
C16_MinHeap ==
    /\ Idle =>
          /\ peek(heap) = (IF Size(elems) = 0 THEN Absent ELSE Some(Reverse(BagMin(elems))))
          /\ last.op = "peek" => last.ret = peek(heap)
    /\ mode \in {"draining", "drained"} =>
          /\ \A i \in 1 .. Len(out) - 1 : out[i] <= out[i + 1]
          /\ out = SubSeq(SortAsc(start), 1, Len(out))
          /\ Len(out) + Len(heap) = Size(start)
    /\ mode = "drained" => out = SortAsc(start)

\* C16 witness: values pushed in descending order, with a duplicate, have
\* come out of the loop in ascending order.
C16_Witness ==
    /\ mode = "drained"
    /\ out = <<1, 2, 2, MaxVal>>
    /\ start[2] = 2

\* The order C17 states: a may be popped before b when its priority is
\* higher, or the priorities are equal and its timestamp is not later.
MayPrecede(a, b) ==
    \/ a.priority > b.priority
    \/ a.priority = b.priority /\ a.timestamp <= b.timestamp

\* C17: whatever the order of the pushes, the pop loop yields the events in
\* non-increasing priority and, among equal priorities, earlier timestamp
\* first; every event popped precedes all that are still queued, none is
\* lost or invented, and the loop ends with the queue empty.
C17_EventOrder ==
    /\ mode \in {"draining", "drained"} =>
          /\ \A i, j \in DOMAIN out : i < j => MayPrecede(out[i], out[j])
          /\ \A i \in DOMAIN out : \A j \in DOMAIN heap : MayPrecede(out[i], heap[j])
          /\ {out[i] : i \in DOMAIN out} \cup {heap[j] : j \in DOMAIN heap} = start
          /\ Len(out) + Len(heap) = Cardinality(start)
    /\ mode = "drained" => heap = << >> /\ Len(out) = pushes

\* C17 witness: the example's order of pushes (low priority late, the same
\* priority earlier, a higher priority) has come out as higher priority,
\* then the earlier, then the later of the two equal priorities.
C17_Witness ==
    /\ mode = "drained"
    /\ Len(out) = 3
    /\ <<out[1].name, out[2].name, out[3].name>> = <<3, 2, 1>>
    /\ out[1].priority > out[2].priority
    /\ out[2].priority = out[3].priority
    /\ out[2].timestamp < out[3].timestamp

\* C18: heapsort(data) returns the elements of data in ascending order: a
\* permutation of data (the same length and multiset) with no element
\* greater than its successor, for the empty data and data with duplicates
\* too.
C18_Heapsort ==
    last.op = "heapsort" =>
        /\ Len(out) = Len(nums)
        /\ Count(out) = Count(nums)
        /\ \A i \in 1 .. Len(out) - 1 : out[i] <= out[i + 1]
        /\ out = SortAsc(Count(nums))
        /\ nums = << >> => out = << >>

\* C18 witness: data with a duplicate of the greatest value in front came
\* back sorted ascending.
C18_Witness ==
    /\ last.op = "heapsort"
    /\ nums = <<MaxVal, 1, MaxVal, 2>>
    /\ out = <<1, 2, MaxVal, MaxVal>>

\* C19 as stated: for every nums and every k >= 0 the call of k_largest
\* comes back, with exactly min(k, len(nums)) values that are, as a
\* multiset, the k largest of nums.
C19_KLargestEveryK ==
    /\ mode # "panicked"
    /\ mode = "done" =>
          /\ Len(out) = Min(k, Len(nums))
          /\ Count(out) = Largest(nums, k)

\* C19, what holds: k_largest panics only for k >= isize::MAX, and for
\* every such k but usize::MAX itself in a build without overflow checks;
\* whenever it returns, it returns exactly min(k, len(nums)) values, the k
\* largest of nums as a multiset.
C19_KLargestWhenItReturns ==
    /\ mode = "panicked" => k >= IsizeMax
    /\ (k >= IsizeMax /\ k < UsizeMax) => mode \in {"idle", "panicked"}
    /\ mode = "done" =>
          /\ Len(out) = Min(k, Len(nums))
          /\ Count(out) = Largest(nums, k)
          /\ k = 0 => out = << >>
          /\ k > Len(nums) => Count(out) = Count(nums)

\* C19 witness: the two largest of four values, a duplicate among them, were
\* returned, the smallest of the two first.
C19_Witness ==
    /\ mode = "done"
    /\ k = 2
    /\ nums = <<MaxVal, 1, 2, 1>>
    /\ out = <<2, MaxVal>>

\* C19, the failing call: one value and k = usize::MAX - 1 (more than
\* len(nums)) ends in the capacity-overflow panic of with_capacity.
C19_Panics ==
    /\ mode = "panicked"
    /\ nums = <<1>>
    /\ k = UsizeMax - 1

\* C20 as stated: for every nums and every k >= 0 the call of k_smallest
\* comes back, with exactly min(k, len(nums)) values that are, as a
\* multiset, the k smallest of nums.
C20_KSmallestEveryK ==
    /\ mode # "panicked"
    /\ mode = "done" =>
          /\ Len(out) = Min(k, Len(nums))
          /\ Count(out) = Smallest(nums, k)

\* C20, what holds: k_smallest panics only for k >= isize::MAX, and for
\* every such k but usize::MAX itself in a build without overflow checks;
\* whenever it returns, it returns exactly min(k, len(nums)) values, the k
\* smallest of nums as a multiset.
C20_KSmallestWhenItReturns ==
    /\ mode = "panicked" => k >= IsizeMax
    /\ (k >= IsizeMax /\ k < UsizeMax) => mode \in {"idle", "panicked"}
    /\ mode = "done" =>
          /\ Len(out) = Min(k, Len(nums))
          /\ Count(out) = Smallest(nums, k)
          /\ k = 0 => out = << >>
          /\ k > Len(nums) => Count(out) = Count(nums)

\* C20 witness: the two smallest of four values, a duplicate among them,
\* were returned, the largest of the two first.
C20_Witness ==
    /\ mode = "done"
    /\ k = 2
    /\ nums = <<1, MaxVal, 2, MaxVal>>
    /\ out = <<2, 1>>

\* C20, the failing call: k = usize::MAX with overflow checks on ends in the
\* overflow panic of k + 1, before any value is looked at.
C20_Panics ==
    /\ mode = "panicked"
    /\ nums = <<MaxVal, 1>>
    /\ k = UsizeMax
    /\ last.arg.panic

\* C21: for any list of ascending-sorted lists (empty inner lists and the
\* empty outer list among them) merge_k_sorted terminates and returns a
\* non-decreasing permutation of the concatenation of the lists.  It
\* terminates because until it has returned a step is always possible, every
\* step takes a list, emits a value or returns, and neither the lists taken
\* nor the values emitted can pass what the input holds.
C21_Merge ==
    /\ [](/\ NonDecreasing(out)
          /\ pushes <= Len(lists)
          /\ Len(out) <= Len(Concat(lists))
          /\ mode # "done" => ENABLED NextMerge
          /\ mode = "done" => /\ SameElements(out, Concat(lists))
                              /\ heap = << >>)
    /\ [][/\ mode # "done"
          /\ \/ pushes' + Len(out') > pushes + Len(out)
             \/ mode' = "done"]_vars

\* C21 witness: two lists with the same values were merged, each value of
\* the second list coming out next to its equal of the first.
C21_Witness ==
    /\ mode = "done"
    /\ lists = <<<<1, 2>>, <<1, 2>>>>
    /\ out = <<1, 1, 2, 2>>

C23_MinCostFirst ==
    [][(last'.op = "pop" /\ last'.ret.some) =>
          LET state == last'.ret.val
              queued == {heap[j] : j \in DOMAIN heap}
          IN  /\ state \in queued
              /\ \A s \in queued : state.cost <= s.cost
              /\ {heap'[j] : j \in DOMAIN heap'} = queued \ {state}
              /\ Len(heap') = Len(heap) - 1
              /\ \A i \in 1 .. Len(out') - 1 : out'[i].cost <= out'[i + 1].cost]_vars

\* C23 witness: costs pushed as in the example (a middle cost, the least, the
\* greatest) came out least first.
C23_Witness ==
    /\ mode = "drained"
    /\ Len(out) = 3
    /\ <<out[1].node, out[2].node, out[3].node>> = <<2, 1, 3>>
    /\ out[1].cost < out[2].cost
    /\ out[2].cost < out[3].cost

\* The i-th window of the data: data[i .. i + window_size - 1], counted
\* from 1.
Slice(i) == SubSeq(nums, i, i + window_size - 1)

\* The averages emitted are, in order, those of the first windows of the
\* data, each the i8 sum of its window over window_size.
AveragesOfSlices ==
    \A i \in DOMAIN out :
        out[i] = average(sum_i8(Slice(i), 0, FALSE).val, window_size)

C24_Panics ==
    /\ mode = "panicked"
    /\ nums = <<I8Max, 1, 0>>
    /\ out = << >>

\* C25: Cache::get(key) returns None for a key never inserted and at any
\* time at or after the expiry of the entry (the time of the key's last
\* insert plus the TTL of the cache); strictly before it, it returns the
\* value of the key's last insert: a re-insert replaces the value and
\* restarts the TTL.  get does not change the cache.  (A step that leaves the
\* clock alone and ends with get as the last call is a call of get.)
C25_CacheGet ==
    [][(last'.op = "get" /\ now' = now) =>
          LET key == last'.arg
          IN  /\ last'.ret =
                    (IF key \in DOMAIN elems /\ now < elems[key].at + cache.default_ttl
                     THEN Some(elems[key].value)
                     ELSE Absent)
              /\ cache' = cache]_vars

\* C25 witness: a key re-inserted with another value after its first entry
\* had expired is found again, with the new value.
C25_Witness ==
    /\ last.op = "get"
    /\ last.ret = Some("Bob")
    /\ cache.default_ttl = 1
    /\ now = 2
    /\ elems[last.arg] = [value |-> "Bob", at |-> 2]

\* The distinct words among the first n interned.
Interned(n) == {nums[i] : i \in 1 .. n}

\* C26: after any sequence of intern calls each distinct string interned is
\* stored once; every call returned a stored Rc holding its string, and two
\* calls returned the same Rc (the same pointer) exactly when their strings
\* were equal; interning a string that is stored changes neither the set nor
\* the allocations; stats() is the number of distinct strings interned.
C26_Interner ==
    /\ [](/\ {rc.str : rc \in interner.strings} = Interned(pushes)
          /\ Cardinality(interner.strings) = Cardinality(Interned(pushes))
          /\ Len(out) = pushes
          /\ \A i \in DOMAIN out : out[i] \in interner.strings /\ out[i].str = nums[i]
          /\ \A i, j \in DOMAIN out : out[i].ptr = out[j].ptr <=> nums[i] = nums[j]
          /\ last.op = "stats" => last.ret = Some(Cardinality(Interned(Len(nums)))))
    /\ [][(pushes' = pushes + 1 /\ nums[pushes + 1] \in Interned(pushes)) =>
             /\ interner' = interner
             /\ allocated' = allocated]_vars

\* C26 witness: the words of the example, as far as they go: hello and world
\* came back at their first pointers, and three strings are stored.
C26_Witness ==
    /\ last.op = "stats"
    /\ nums = <<"hello", "world", "hello", "rust">>
    /\ out[3] = out[1]
    /\ <<out[1].ptr, out[2].ptr, out[4].ptr>> = <<1, 2, 3>>
    /\ last.ret = Some(3)

\* C27 as stated: during k_largest and k_smallest the working heap never
\* holds more than k + 1 elements, holds at most k at the end of every loop
\* iteration, and never holds more than the capacity reserved up front.
C27_CapacityEveryK ==
    /\ Len(heap) <= k + 1
    /\ mode = "loop" => Len(heap) <= k
    /\ mode \in {"loop", "pushed"} => Len(heap) <= reserved

\* C27, what holds: the heap never holds more than k + 1 elements and holds
\* min(k, elements taken) at the end of every iteration; the capacity
\* reserved is k + 1, and so never exceeded, for every k below usize::MAX
\* for which the call gets as far as the loop; for k = usize::MAX the loop
\* runs only where k + 1 has wrapped, with a capacity of 0 reserved.
C27_CapacityBelowMax ==
    /\ Len(heap) <= k + 1
    /\ mode = "loop" => Len(heap) = Min(k, pushes)
    /\ mode = "pushed" => Len(heap) = Min(k, pushes - 1) + 1
    /\ (mode \in {"loop", "pushed"} /\ k < UsizeMax) =>
          /\ reserved = k + 1
          /\ Len(heap) <= reserved
    /\ (mode \in {"loop", "pushed"} /\ k = UsizeMax) => reserved = 0

\* C27 witness: in the middle of an iteration of k_smallest the heap holds
\* k + 1 elements, all the capacity reserved.
C27_Witness ==
    /\ fn = "k_smallest"
    /\ mode = "pushed"
    /\ k = 2
    /\ Len(heap) = k + 1
    /\ reserved = k + 1

\* C27, the failing call: k_largest with k = usize::MAX where k + 1 wraps:
\* no capacity is reserved and the heap holds an element.
C27_Exceeded ==
    /\ fn = "k_largest"
    /\ k = UsizeMax
    /\ mode = "pushed"
    /\ reserved = 0
    /\ Len(heap) = 1

\* What cmp looks at: the priority of a Task, the priority and the timestamp
\* of an Event, the cost of a State.
SameKey(type, a, b) ==
    CASE type = "Task" -> a.priority = b.priority
      [] type = "Event" -> a.priority = b.priority /\ a.timestamp = b.timestamp
      [] type = "State" -> a.cost = b.cost

\* C28 as stated: for Task, Event and State, a.cmp(b) is Equal exactly when
\* a == b.
C28_EqualIffEq ==
    last.op = "cmp" => (last.ret.cmp = "Equal" <=> last.ret.eq)

\* C28, what holds: a == b implies a.cmp(b) is Equal, and a.cmp(b) is Equal
\* exactly when a and b agree in the fields cmp looks at; they may differ in
\* the name or the node, and then a == b is false.
C28_EqImpliesEqual ==
    last.op = "cmp" =>
        /\ last.ret.eq => last.ret.cmp = "Equal"
        /\ last.ret.cmp = "Equal" <=> SameKey(fn, nums[1], nums[2])
        /\ last.ret.eq <=> nums[1] = nums[2]

\* C28 witness: two tasks of one priority and different names compare Equal
\* and are not ==, as "Fix production bug" and "Security patch" in the
\* example.
C28_Witness ==
    /\ last.op = "cmp"
    /\ fn = "Task"
    /\ nums[1].priority = nums[2].priority
    /\ nums[1].name # nums[2].name
    /\ last.ret = [cmp |-> "Equal", eq |-> FALSE]

=========================================================================
